---- MODULE Spec2Model ----
(***************************************************************************)
(* Model of wheel/metadata.py: the conversion of a PKG-INFO header block   *)
(* to a Metadata 2.0 dict (pkginfo_to_dict) and of an .egg-info directory  *)
(* (PKG-INFO plus requires.txt) to a Metadata 1.3 header block             *)
(* (pkginfo_to_metadata).                                                  *)
(*                                                                         *)
(* A Python str is a sequence of one-character strings, so that partition, *)
(* strip, the EXTRA_RE match, repr and sorted are computed character by    *)
(* character.  The alphabet is ASCII, for which read_pkg_info yields str   *)
(* header values (the surrogateescape branch of dedent_description is      *)
(* taken for non-ASCII values only).                                       *)
(***************************************************************************)
EXTENDS Integers, Sequences, FiniteSets, TLC

VARIABLES pkg_info, requires_txt, distribution, egg_metadata, result

vars == <<pkg_info, requires_txt, distribution, egg_metadata, result>>

(***************************************************************************)
(* Python values                                                           *)
(***************************************************************************)

\* Python's None (a value no str, list or dict is equal to).
None == <<"None">>

\* The characters of the model in code point order: sorted() and the
\* comparison of str go by code point.
Ascii ==
  <<"\n", " ", "\"", "'", "(", ")", ",", ".", "0", "1", "2", "3", ";", "<", "=",
    ">", "J", "K", "M", "N", "O", "P", "Q", "U", "W", "\\", "a", "b", "c", "d",
    "e", "f", "g", "h", "j", "k", "l", "m", "n", "o", "p", "q", "r", "s", "t",
    "u", "v", "w", "x", "y", "z">>

ord(c) == CHOOSE i \in 1..Len(Ascii) : Ascii[i] = c

\* s < t for two str
RECURSIVE StrLess(_, _)
StrLess(s, t) ==
  IF t = <<>> THEN FALSE
  ELSE IF s = <<>> THEN TRUE
  ELSE IF Head(s) = Head(t) THEN StrLess(Tail(s), Tail(t))
  ELSE ord(Head(s)) < ord(Head(t))

\* sorted() of a list of str: insertion sort (stable)
RECURSIVE Insert(_, _)
Insert(x, l) ==
  IF l = <<>> THEN <<x>>
  ELSE IF StrLess(x, Head(l)) THEN <<x>> \o l
  ELSE <<Head(l)>> \o Insert(x, Tail(l))

RECURSIVE sorted(_)
sorted(l) ==
  IF l = <<>> THEN <<>>
  ELSE Insert(l[Len(l)], sorted(SubSeq(l, 1, Len(l) - 1)))

Range(l) == {l[i] : i \in 1..Len(l)}

\* str.join
RECURSIVE join(_, _)
join(sep, l) ==
  IF l = <<>> THEN <<>>
  ELSE IF Len(l) = 1 THEN l[1]
  ELSE l[1] \o sep \o join(sep, Tail(l))

\* string.whitespace
Whitespace == {" ", "\t", "\n", "\r", "\f"}

RECURSIVE lstrip(_)
lstrip(s) ==
  IF s # <<>> /\ Head(s) \in Whitespace THEN lstrip(Tail(s)) ELSE s

RECURSIVE rstrip(_)
rstrip(s) ==
  IF s # <<>> /\ s[Len(s)] \in Whitespace
  THEN rstrip(SubSeq(s, 1, Len(s) - 1)) ELSE s

strip(s) == rstrip(lstrip(s))

startswith(s, p) == Len(s) >= Len(p) /\ SubSeq(s, 1, Len(p)) = p

\* str.partition(sep) for a one-character sep: <<before, sep, after>> at the
\* first occurrence, <<s, '', ''>> when there is none
partition(s, sep) ==
  IF \E i \in 1..Len(s) : s[i] = sep
  THEN LET i == CHOOSE i \in 1..Len(s) :
                  s[i] = sep /\ \A j \in 1..(i - 1) : s[j] # sep
       IN <<SubSeq(s, 1, i - 1), <<sep>>, SubSeq(s, i + 1, Len(s))>>
  ELSE <<s, <<>>, <<>>>>

\* str.splitlines() (the model's only line boundary is \n)
RECURSIVE splitlines(_)
splitlines(s) ==
  IF s = <<>> THEN <<>>
  ELSE LET p == partition(s, "\n")
       IN <<p[1]>> \o splitlines(p[3])

\* unique(): the values of the iterable in first-seen order
RECURSIVE unique(_)
unique(iterable) ==
  IF iterable = <<>> THEN <<>>
  ELSE LET rest == unique(SubSeq(iterable, 1, Len(iterable) - 1))
           value == iterable[Len(iterable)]
       IN IF value \in Range(rest) THEN rest ELSE Append(rest, value)

\* dict: a function from keys to values
EmptyDict == <<>>

Put(d, k, v) == [x \in (DOMAIN d) \cup {k} |-> IF x = k THEN v ELSE d[x]]

Pop(d, k) == [x \in (DOMAIN d) \ {k} |-> d[x]]

(***************************************************************************)
(* The header block (email.message.Message, as read_pkg_info returns it):  *)
(* [headers |-> a sequence of [key, value], payload |-> str].  Header      *)
(* names are matched without regard to case.                               *)
(***************************************************************************)

\* The header names of the model: <<as written, k.lower(), with '-' replaced by '_'>>
HeaderNames ==
  << <<"Metadata-Version", "metadata-version", "metadata_version">>,
     <<"Name", "name", "name">>,
     <<"Description", "description", "description">>,
     <<"Classifier", "classifier", "classifier">>,
     <<"Provides-Dist", "provides-dist", "provides_dist">>,
     <<"Provides-Extra", "provides-extra", "provides_extra">>,
     <<"PROVIDES-EXTRA", "provides-extra", "provides_extra">>,
     <<"Requires-Dist", "requires-dist", "requires_dist">>,
     <<"Author", "author", "author">>,
     <<"Author-email", "author-email", "author_email">>,
     <<"Maintainer", "maintainer", "maintainer">>,
     <<"Maintainer-email", "maintainer-email", "maintainer_email">>,
     <<"Platform", "platform", "platform">>,
     <<"Home-page", "home-page", "home_page">>,
     <<"License", "license", "license">> >>

\* str.lower() of a header name
lower(k) ==
  LET row == CHOOSE i \in 1..Len(HeaderNames) :
                 HeaderNames[i][1] = k \/ HeaderNames[i][2] = k
  IN HeaderNames[row][2]

\* key.replace('-', '_') of a lower-cased header name
replace_hyphen(k) ==
  LET row == CHOOSE i \in 1..Len(HeaderNames) : HeaderNames[i][2] = k
  IN HeaderNames[row][3]

\* Message.keys()
keys(msg) == [i \in 1..Len(msg.headers) |-> msg.headers[i].key]

\* Message.get_all(name): the values of all the headers named name, in order
RECURSIVE get_all_from(_, _)
get_all_from(headers, name) ==
  IF headers = <<>> THEN <<>>
  ELSE (IF lower(Head(headers).key) = lower(name)
        THEN <<Head(headers).value>> ELSE <<>>)
       \o get_all_from(Tail(headers), name)

get_all(msg, name) == get_all_from(msg.headers, name)

\* Message.get(name) and Message[name]: the value of the first header named
\* name, None when there is none
get(msg, name) ==
  LET all == get_all(msg, name)
  IN IF all = <<>> THEN None ELSE all[1]

\* del Message[name]: every header named name is removed
RECURSIVE del_from(_, _)
del_from(headers, name) ==
  IF headers = <<>> THEN <<>>
  ELSE (IF lower(Head(headers).key) = lower(name)
        THEN <<>> ELSE <<Head(headers)>>)
       \o del_from(Tail(headers), name)

del_header(msg, name) == [msg EXCEPT !.headers = del_from(msg.headers, name)]

\* Message[name] = value: a header is appended (none is replaced)
set_header(msg, name, value) ==
  [msg EXCEPT !.headers = Append(msg.headers, [key |-> name, value |-> value])]

\* Message.replace_header(name, value): the first header named name keeps its
\* place and its spelling and takes the value; the caller sees KeyError when
\* there is none
has_header(msg, name) ==
  \E i \in 1..Len(msg.headers) : lower(msg.headers[i].key) = lower(name)

replace_header(msg, name, value) ==
  LET i == CHOOSE i \in 1..Len(msg.headers) :
               /\ lower(msg.headers[i].key) = lower(name)
               /\ \A j \in 1..(i - 1) : lower(msg.headers[j].key) # lower(name)
  IN [msg EXCEPT !.headers[i].value = value]

set_payload(msg, payload) == [msg EXCEPT !.payload = payload]

(***************************************************************************)
(* Module constants                                                        *)
(***************************************************************************)

METADATA_VERSION == <<"2", ".", "0">>

PLURAL_FIELDS ==
  [classifier |-> "classifiers",
   provides_dist |-> "provides",
   provides_extra |-> "extras"]

SKIP_FIELDS == {}

CONTACT_FIELDS ==
  << [contact_type |-> [email |-> "author_email", name |-> "author"],
      role |-> "author"],
     [contact_type |-> [email |-> "maintainer_email", name |-> "maintainer"],
      role |-> "maintainer"] >>

UNKNOWN_FIELDS == {"author", "author_email", "platform", "home_page", "license"}

\* the literal 'UNKNOWN' of the placeholder test
UNKNOWN == <<"U", "N", "K", "N", "O", "W", "N">>

\* EXTRA_RE = "extra == '(?P<extra>.+)'": the literal text before the group
EXTRA_RE_PREFIX == <<"e", "x", "t", "r", "a", " ", "=", "=", " ", "'">>

\* EXTRA_RE.match(marker).group('extra'), None when there is no match.  match
\* anchors the pattern at the start of the marker only; .+ is greedy, matches
\* no line break and gives back characters until a quote follows, so the group
\* runs to the last quote of the marker's first line and is never empty.
EXTRA_RE_match(marker) ==
  IF ~startswith(marker, EXTRA_RE_PREFIX) THEN None
  ELSE LET rest == SubSeq(marker, Len(EXTRA_RE_PREFIX) + 1, Len(marker))
           line == partition(rest, "\n")[1]
           ends == {j \in 2..Len(line) : line[j] = "'"}
       IN IF ends = {} THEN None
          ELSE LET j == CHOOSE j \in ends : \A k \in ends : k <= j
               IN SubSeq(line, 1, j - 1)

(***************************************************************************)
(* dedent_description                                                      *)
(***************************************************************************)

Blank == {" ", "\t"}

\* the leading run of blanks of a line
RECURSIVE indent_of(_)
indent_of(line) ==
  IF line # <<>> /\ Head(line) \in Blank
  THEN <<Head(line)>> \o indent_of(Tail(line)) ELSE <<>>

RECURSIVE common_prefix(_, _)
common_prefix(a, b) ==
  IF a # <<>> /\ b # <<>> /\ Head(a) = Head(b)
  THEN <<Head(a)>> \o common_prefix(Tail(a), Tail(b)) ELSE <<>>

\* textwrap.dedent's margin over the indents of the lines that are not blank
RECURSIVE margin_of(_, _)
margin_of(indents, margin) ==
  IF indents = <<>> THEN margin
  ELSE LET indent == Head(indents)
           next == IF margin = None THEN indent
                   ELSE IF startswith(indent, margin) THEN margin
                   ELSE IF startswith(margin, indent) THEN indent
                   ELSE common_prefix(margin, indent)
       IN margin_of(Tail(indents), next)

RECURSIVE indents_of(_)
indents_of(lines) ==
  IF lines = <<>> THEN <<>>
  ELSE (IF Head(lines) = <<>> THEN <<>> ELSE <<indent_of(Head(lines))>>)
       \o indents_of(Tail(lines))

\* textwrap.dedent over the lines of a text: lines of blanks only become
\* empty, then the common margin is taken off every line that starts with it
dedent(lines) ==
  LET cleared == [i \in 1..Len(lines) |->
                    IF \A j \in 1..Len(lines[i]) : lines[i][j] \in Blank
                    THEN <<>> ELSE lines[i]]
      margin == margin_of(indents_of(cleared), None)
  IN IF margin = None \/ margin = <<>> THEN cleared
     ELSE [i \in 1..Len(cleared) |->
             IF startswith(cleared[i], margin)
             THEN SubSeq(cleared[i], Len(margin) + 1, Len(cleared[i]))
             ELSE cleared[i]]

\* dedent_description(pkg_info), for a str Description
dedent_description(msg) ==
  LET description == get(msg, "Description")
      description_lines == splitlines(description)
  IN join(<<"\n">>,
          << lstrip(description_lines[1]),
             join(<<"\n">>, dedent(Tail(description_lines))),
             <<"\n">> >>)

(***************************************************************************)
(* pkginfo_to_dict                                                         *)
(***************************************************************************)

\* the loop over the values of Requires-Dist: <<requirements, extra_requirements>>,
\* extra_requirements being the defaultdict(list) from extra name to requirements
RECURSIVE group_requirements(_, _, _)
group_requirements(values, requirements, extra_requirements) ==
  IF values = <<>> THEN <<requirements, extra_requirements>>
  ELSE LET parts == partition(Head(values), ";")
           requirement == parts[1]
           marker == strip(parts[3])
           extra_name == EXTRA_RE_match(marker)
       IN IF marker # <<>>
          THEN IF extra_name # None
               THEN group_requirements(
                      Tail(values), requirements,
                      Put(extra_requirements, extra_name,
                          (IF extra_name \in DOMAIN extra_requirements
                           THEN extra_requirements[extra_name] ELSE <<>>)
                          \o <<requirement>>))
               ELSE group_requirements(Tail(values), requirements,
                                       extra_requirements)
          ELSE group_requirements(Tail(values),
                                  Append(requirements, requirement),
                                  extra_requirements)

\* sorted() of a set of distinct str (the keys of a dict)
RECURSIVE sorted_set(_)
sorted_set(S) ==
  IF S = {} THEN <<>>
  ELSE LET m == CHOOSE x \in S : \A y \in S \ {x} : StrLess(x, y)
       IN <<m>> \o sorted_set(S \ {m})

\* metadata['extras'].extend(values), the list being created when it is missing
extend_extras(metadata, values) ==
  Put(metadata, "extras",
      (IF "extras" \in DOMAIN metadata THEN metadata["extras"] ELSE <<>>)
      \o values)

\* the branch low_key == "requires_dist"
requires_dist_rule(msg, key, metadata) ==
  LET grouped == group_requirements(get_all(msg, key), <<>>, EmptyDict)
      requirements == grouped[1]
      extra_requirements == grouped[2]
      names == sorted_set(DOMAIN extra_requirements)
      with_requires == Put(metadata, "requires", requirements)
  IN IF extra_requirements # EmptyDict
     THEN extend_extras(
            Put(with_requires, "may_require",
                [i \in 1..Len(names) |->
                   [extra |-> names[i],
                    dependencies |-> extra_requirements[names[i]]]]),
            names)
     ELSE with_requires

\* is_placeholder with the name looked up as the header spells it, hyphens kept
is_placeholder_by_key(msg, key, low_key) ==
  key \in UNKNOWN_FIELDS /\ get(msg, key) = UNKNOWN

\* low_key in UNKNOWN_FIELDS and pkg_info.get(key) == 'UNKNOWN'
is_placeholder(msg, key, low_key) ==
  low_key \in UNKNOWN_FIELDS /\ get(msg, key) = UNKNOWN

\* plural_rule with the values passed through unique()
plural_rule_unique(msg, key, low_key, metadata) ==
  Put(metadata, PLURAL_FIELDS[low_key], unique(get_all(msg, key)))

\* metadata[PLURAL_FIELDS[low_key]] = pkg_info.get_all(key)
plural_rule(msg, key, low_key, metadata) ==
  Put(metadata, PLURAL_FIELDS[low_key], get_all(msg, key))

\* the body of the loop over the header names, for one name
field_rule(msg, key, metadata) ==
  LET low_key == replace_hyphen(key)
  IN IF low_key \in SKIP_FIELDS THEN metadata
     ELSE IF is_placeholder(msg, key, low_key) THEN metadata
     ELSE IF low_key \in DOMAIN PLURAL_FIELDS
       THEN plural_rule(msg, key, low_key, metadata)
     ELSE IF low_key = "requires_dist" THEN requires_dist_rule(msg, key, metadata)
     ELSE IF low_key = "provides_extra"
       THEN extend_extras(metadata, get_all(msg, key))
     ELSE IF low_key = "home_page"
       THEN Put(metadata, "project_urls", [Home |-> get(msg, key)])
     ELSE Put(metadata, low_key, get(msg, key))

RECURSIVE classify_fields(_, _, _)
classify_fields(msg, names, metadata) ==
  IF names = <<>> THEN metadata
  ELSE classify_fields(msg, Tail(names), field_rule(msg, Head(names), metadata))

\* the description, then the loop over the distinct lower-cased header names:
\* <<the header block after the Description is taken out, metadata>>
described(msg) ==
  LET description == get(msg, "Description")
  IN IF description # None /\ description # <<>>
     THEN <<del_header(msg, "Description"),
            Put(EmptyDict, "description", dedent_description(msg))>>
     ELSE <<msg,
            IF msg.payload # <<>>
            THEN Put(EmptyDict, "description", msg.payload) ELSE EmptyDict>>

classified(msg) ==
  LET d == described(msg)
      names == unique([i \in 1..Len(keys(d[1])) |-> lower(keys(d[1])[i])])
  IN Put(classify_fields(d[1], names, d[2]),
         "metadata_version", METADATA_VERSION)

\* sort_extras without unique()
sort_extras_only(metadata) ==
  Put(metadata, "extras", sorted(metadata["extras"]))

\* metadata['extras'] = sorted(unique(metadata['extras']))
sort_extras(metadata) ==
  Put(metadata, "extras", sorted(unique(metadata["extras"])))

\* the attributes of the distribution that are copied
with_distribution(metadata, dist) ==
  IF dist.given /\ dist.has_tests_require /\ dist.tests_require # <<>>
  THEN Put(metadata, "test_requires", dist.tests_require)
  ELSE metadata

\* one contact: <<metadata without the fields taken, contact>>
RECURSIVE take_contact(_, _, _, _)
take_contact(contact_type, pieces, metadata, contact) ==
  IF pieces = <<>> THEN <<metadata, contact>>
  ELSE LET piece == Head(pieces)
           field == contact_type[piece]
       IN IF field \in DOMAIN metadata
          THEN take_contact(contact_type, Tail(pieces), Pop(metadata, field),
                            Put(contact, piece, metadata[field]))
          ELSE take_contact(contact_type, Tail(pieces), metadata, contact)

\* take_contacts without the test of the contact being empty
RECURSIVE take_contacts_unconditional(_, _, _)
take_contacts_unconditional(fields, metadata, contacts) ==
  IF fields = <<>> THEN <<metadata, contacts>>
  ELSE LET taken == take_contact(Head(fields).contact_type, <<"email", "name">>,
                                 metadata, EmptyDict)
       IN take_contacts_unconditional(
            Tail(fields), taken[1],
            Append(contacts, Put(taken[2], "role", Head(fields).role)))

RECURSIVE take_contacts(_, _, _)
take_contacts(fields, metadata, contacts) ==
  IF fields = <<>> THEN <<metadata, contacts>>
  ELSE LET taken == take_contact(Head(fields).contact_type, <<"email", "name">>,
                                 metadata, EmptyDict)
       IN take_contacts(
            Tail(fields), taken[1],
            IF taken[2] # EmptyDict
            THEN Append(contacts, Put(taken[2], "role", Head(fields).role))
            ELSE contacts)

handle_contacts(metadata) ==
  LET taken == take_contacts(CONTACT_FIELDS, metadata, <<>>)
  IN IF taken[2] # <<>> THEN Put(taken[1], "contacts", taken[2]) ELSE taken[1]

\* pkginfo_to_dict(path, distribution): the dict returned, or the KeyError of
\* metadata['extras'] when no branch of the loop has stored extras
pkginfo_to_dict(msg, dist) ==
  LET metadata == classified(msg)
  IN IF "extras" \notin DOMAIN metadata
     THEN [status |-> "KeyError"]
     ELSE [status |-> "returned",
           metadata |-> handle_contacts(
                          with_distribution(sort_extras(metadata), dist))]

(***************************************************************************)
(* pkginfo_to_metadata                                                     *)
(***************************************************************************)

\* a parsed requirement is [project_name, extras, specs], extras a list of
\* str and specs a list of <<op, ver>> (pkg_resources.Requirement)

RECURSIVE op_ver(_)
op_ver(specs) ==
  IF specs = <<>> THEN <<>>
  ELSE <<Head(specs)[1] \o Head(specs)[2]>> \o op_ver(Tail(specs))

\* requires_to_requires_dist without the early return for no specs
requires_to_requires_dist_always(requirement) ==
  <<" ", "(">> \o join(<<",">>, op_ver(requirement.specs)) \o <<")">>

\* requires_to_requires_dist(requirement)
requires_to_requires_dist(requirement) ==
  LET requires_dist == op_ver(requirement.specs)
  IN IF requires_dist = <<>> THEN <<>>
     ELSE <<" ", "(">> \o join(<<",">>, requires_dist) \o <<")">>

\* repr() of a str: in single quotes, in double quotes when the str holds a
\* single quote and no double quote; the quote in use, the backslash and the
\* line break are escaped
RECURSIVE escaped(_, _)
escaped(s, quote) ==
  IF s = <<>> THEN <<>>
  ELSE (IF Head(s) = quote \/ Head(s) = "\\" THEN <<"\\", Head(s)>>
        ELSE IF Head(s) = "\n" THEN <<"\\", "n">>
        ELSE <<Head(s)>>)
       \o escaped(Tail(s), quote)

repr(s) ==
  LET quote == IF "'" \in Range(s) /\ "\"" \notin Range(s) THEN "\"" ELSE "'"
  IN <<quote>> \o escaped(s, quote) \o <<quote>>

\* '; extra == %s': the text before the repr of the section name
CONDITION_PREFIX == <<";", " ", "e", "x", "t", "r", "a", " ", "=", "=", " ">>

\* a section name that is None or '' is false
truth(extra) == extra # None /\ extra # <<>>

\* the value of the Requires-Dist header of one requirement line
requires_dist_value(parsed_requirement, condition) ==
  LET spec == requires_to_requires_dist(parsed_requirement)
      joined == join(<<",">>, parsed_requirement.extras)
      extras == IF joined # <<>> THEN <<"[">> \o joined \o <<"]">> ELSE joined
  IN parsed_requirement.project_name \o extras \o spec \o condition

RECURSIVE add_requirements(_, _, _)
add_requirements(msg, reqs, condition) ==
  IF reqs = <<>> THEN msg
  ELSE add_requirements(
         set_header(msg, "Requires-Dist",
                    requires_dist_value(Head(reqs), condition)),
         Tail(reqs), condition)

\* pkg_resources.split_sections(requires) over the lines of requires.txt, a
\* line being [section |-> name] for "[name]" and [req |-> parsed requirement]
\* otherwise: the list of [extra, reqs]; the lines before the first section
\* line are the section None, left out when it is empty and a section follows
RECURSIVE split_from(_, _, _)
split_from(lines, section, content) ==
  IF lines = <<>> THEN << [extra |-> section, reqs |-> content] >>
  ELSE IF "section" \in DOMAIN Head(lines)
    THEN (IF truth(section) \/ content # <<>>
          THEN << [extra |-> section, reqs |-> content] >> ELSE <<>>)
         \o split_from(Tail(lines), Head(lines).section, <<>>)
  ELSE split_from(Tail(lines), section, Append(content, Head(lines).req))

split_sections(lines) == split_from(lines, None, <<>>)

\* the loop over the sections, a list of [extra, reqs]
RECURSIVE add_sections(_, _)
add_sections(msg, sections) ==
  IF sections = <<>> THEN msg
  ELSE LET extra == Head(sections).extra
           condition == IF truth(extra)
                        THEN CONDITION_PREFIX \o repr(extra)
                        ELSE <<>>
           named == IF truth(extra)
                    THEN set_header(msg, "Provides-Extra", extra) ELSE msg
       IN add_sections(add_requirements(named, Head(sections).reqs, condition),
                       Tail(sections))

\* pkginfo_to_metadata without del pkg_info['Description']
pkginfo_to_metadata_keeping(msg, requires) ==
  LET versioned == replace_header(msg, "Metadata-Version", <<"2", ".", "0">>)
      required == IF requires.exists
                  THEN add_sections(versioned, split_sections(requires.lines))
                  ELSE versioned
      description == get(required, "Description")
  IN IF description # None /\ description # <<>>
     THEN set_payload(required, dedent_description(required))
     ELSE required

\* pkginfo_to_metadata(egg_info_path, pkginfo_path), for a PKG-INFO that has a
\* Metadata-Version header; requires is [exists, lines], the requires.txt of
\* the .egg-info directory
pkginfo_to_metadata(msg, requires) ==
  LET versioned == replace_header(msg, "Metadata-Version", <<"2", ".", "0">>)
      required == IF requires.exists
                  THEN add_sections(versioned, split_sections(requires.lines))
                  ELSE versioned
      description == get(required, "Description")
  IN IF description # None /\ description # <<>>
     THEN del_header(set_payload(required, dedent_description(required)),
                     "Description")
     ELSE required

(***************************************************************************)
(* The state machine.  pkg_info is the PKG-INFO of an .egg-info directory, *)
(* requires_txt its requires.txt and distribution the Distribution passed  *)
(* to pkginfo_to_dict.  egg_metadata is what pkginfo_to_metadata returned  *)
(* (written as METADATA) and result what pkginfo_to_dict returned or       *)
(* raised, for the file named by result.path.                              *)
(***************************************************************************)

\* header blocks have at most MaxHeaders (MaxFields) headers after
\* Metadata-Version; a requires.txt has at most MaxLines lines
MaxHeaders == 3
MaxFields == 3
MaxLines == 4

Header(k, v) == [key |-> k, value |-> v]

SeqsUpTo(S, n) == UNION {[1..m -> S] : m \in 0..n}

extra_eq(name) ==
  <<"e", "x", "t", "r", "a", " ", "=", "=", " ", "'">> \o name \o <<"'">>

and_more == <<" ", "a", "n", "d", " ", "p", " ", "=", "=", " ", "'", "q", "'">>

MetadataVersion11 == Header("Metadata-Version", <<"1", ".", "1">>)

\* Requires-Dist, Provides-Extra, Classifier and Provides-Dist headers
RequirementHeaders ==
  { Header("Requires-Dist", <<"f">>),
    Header("Requires-Dist", <<"b", ";", " ">> \o extra_eq(<<"d">>)),
    Header("Requires-Dist", <<"c", ";", " ">> \o extra_eq(<<"t">>)),
    Header("Requires-Dist", <<"g", ";", " ">> \o extra_eq(<<"d">>) \o and_more),
    Header("Requires-Dist", <<"h", ";", " ", "p", " ", "=", "=", " ", "'", "q", "'">>),
    Header("Provides-Extra", <<"d">>),
    Header("Provides-Extra", <<"t">>),
    Header("PROVIDES-EXTRA", <<"a">>),
    Header("Classifier", <<"k">>),
    Header("Provides-Dist", <<"p">>) }

\* contact and placeholder headers
ContactHeaders ==
  { Header("Author", <<"J">>),
    Header("Author", UNKNOWN),
    Header("Author-email", <<"e">>),
    Header("Author-email", UNKNOWN),
    Header("Maintainer", <<"M">>),
    Header("Maintainer-email", <<"m">>),
    Header("Platform", UNKNOWN),
    Header("Platform", <<"l">>),
    Header("Home-page", UNKNOWN),
    Header("Home-page", <<"h">>),
    Header("License", UNKNOWN) }

ExtrasHeaders ==
  { <<>>,
    <<Header("Provides-Extra", <<"d">>)>>,
    <<Header("Requires-Dist", <<"b", ";", " ">> \o extra_eq(<<"d">>))>> }

\* the bodies of PKG-INFO for the conversion of an .egg-info directory
EggInfoHeaders ==
  { <<>>,
    <<Header("Name", <<"n">>),
      Header("Description", <<"P", "\n", " ", " ", "Q", "\n", " ", " ", " ", "R">>)>>,
    <<Header("Requires-Dist", <<"f">>), Header("Description", <<>>)>> }

ParsedRequirements ==
  { [project_name |-> <<"a">>, extras |-> <<>>, specs |-> <<>>],
    [project_name |-> <<"b">>, extras |-> <<<<"x">>>>,
     specs |-> << <<<<">", "=">>, <<"1">>>> >>],
    [project_name |-> <<"c">>, extras |-> <<<<"x">>, <<"y">>>>,
     specs |-> << <<<<">", "=">>, <<"1">>>>, <<<<"<">>, <<"2">>>> >>] }

SectionNames == {<<"t">>, <<"d">>, <<"q", "'", "s">>}

RequiresLines ==
  {[section |-> n] : n \in SectionNames} \cup {[req |-> r] : r \in ParsedRequirements}

NoDistribution ==
  [given |-> FALSE, has_tests_require |-> FALSE, tests_require |-> <<>>]

TestedDistribution ==
  [given |-> TRUE, has_tests_require |-> TRUE, tests_require |-> <<<<"u">>>>]

Distributions ==
  { NoDistribution,
    [given |-> TRUE, has_tests_require |-> FALSE, tests_require |-> <<>>],
    [given |-> TRUE, has_tests_require |-> TRUE, tests_require |-> <<>>],
    TestedDistribution }

NoRequires == [exists |-> FALSE, lines |-> <<>>]

Fresh ==
  /\ egg_metadata = [status |-> "none"]
  /\ result = [status |-> "none"]

\* PKG-INFO files of requirement headers
Init ==
  /\ \E body \in SeqsUpTo(RequirementHeaders, MaxHeaders) :
       pkg_info = [headers |-> <<MetadataVersion11>> \o body, payload |-> <<>>]
  /\ requires_txt = NoRequires
  /\ distribution \in Distributions
  /\ Fresh

\* PKG-INFO files of contact and placeholder headers
InitContacts ==
  /\ \E body \in SeqsUpTo(ContactHeaders, MaxFields), tail \in ExtrasHeaders :
       pkg_info = [headers |-> <<MetadataVersion11>> \o body \o tail,
                   payload |-> <<>>]
  /\ requires_txt = NoRequires
  /\ distribution = NoDistribution
  /\ Fresh

\* .egg-info directories
InitEggInfo ==
  /\ \E body \in EggInfoHeaders :
       pkg_info = [headers |-> <<MetadataVersion11>> \o body,
                   payload |-> IF body = <<>> THEN <<"S">> ELSE <<>>]
  /\ \/ requires_txt = NoRequires
     \/ \E lines \in SeqsUpTo(RequiresLines, MaxLines) :
          requires_txt = [exists |-> TRUE, lines |-> lines]
  /\ distribution \in {NoDistribution, TestedDistribution}
  /\ Fresh

\* pkginfo_to_dict(path to PKG-INFO, distribution)
PkginfoToDict ==
  /\ egg_metadata.status = "none"
  /\ result.status = "none"
  /\ result' = [path |-> "PKG-INFO"] @@ pkginfo_to_dict(pkg_info, distribution)
  /\ UNCHANGED <<pkg_info, requires_txt, distribution, egg_metadata>>

\* pkginfo_to_metadata(egg_info_path, pkginfo_path)
PkginfoToMetadata ==
  /\ egg_metadata.status = "none"
  /\ result.status = "none"
  /\ egg_metadata' =
       IF has_header(pkg_info, "Metadata-Version")
       THEN [status |-> "returned",
             msg |-> pkginfo_to_metadata(pkg_info, requires_txt)]
       ELSE [status |-> "KeyError"]
  /\ UNCHANGED <<pkg_info, requires_txt, distribution, result>>

\* pkginfo_to_dict(path to the METADATA written from egg_metadata, distribution)
MetadataToDict ==
  /\ egg_metadata.status = "returned"
  /\ result.status = "none"
  /\ result' = [path |-> "METADATA"]
                 @@ pkginfo_to_dict(egg_metadata.msg, distribution)
  /\ UNCHANGED <<pkg_info, requires_txt, distribution, egg_metadata>>

Next == PkginfoToDict \/ PkginfoToMetadata \/ MetadataToDict

Spec == Init /\ [][Next]_vars

SpecContacts == InitContacts /\ [][Next]_vars

SpecEggInfo == InitEggInfo /\ [][Next]_vars

(***************************************************************************)
(* Properties                                                              *)
(***************************************************************************)

\* pkginfo_to_dict has returned a dict
Returned == result.status = "returned"

\* the header block pkginfo_to_dict has read
Source == IF result.path = "PKG-INFO" THEN pkg_info ELSE egg_metadata.msg

Document == result.metadata

\* the values of the headers whose lower-cased name is lname, in header order
HeaderValues(msg, lname) ==
  LET named == SelectSeq(msg.headers, LAMBDA h : lower(h.key) = lname)
  IN [i \in 1..Len(named) |-> named[i].value]

NoDuplicates(l) == \A i, j \in 1..Len(l) : i # j => l[i] # l[j]

Ascending(l) == \A i, j \in 1..Len(l) : i < j => StrLess(l[i], l[j])

\* the marker of a Requires-Dist value: the text after the first semicolon, trimmed
MarkerOf(value) == strip(partition(value, ";")[3])

RequirementOf(value) == partition(value, ";")[1]

\* the marker is exactly extra == '<name>', the name neither empty nor holding a quote
IsExtraEquality(marker) ==
  /\ Len(marker) >= 12
  /\ SubSeq(marker, 1, 10) = <<"e", "x", "t", "r", "a", " ", "=", "=", " ", "'">>
  /\ marker[Len(marker)] = "'"
  /\ \A i \in 11..(Len(marker) - 1) : marker[i] # "'"

ExtraNameOf(marker) == SubSeq(marker, 11, Len(marker) - 1)

RequiresDistValues == HeaderValues(Source, "requires-dist")

ProvidesExtraValues == HeaderValues(Source, "provides-extra")

RequirementsOf(values) == [i \in 1..Len(values) |-> RequirementOf(values[i])]

\* the requirements without a marker, in header order
Unconditional ==
  RequirementsOf(SelectSeq(RequiresDistValues, LAMBDA v : MarkerOf(v) = <<>>))

\* the extras named by the extra-equality markers, and their requirements in
\* header order
MarkerExtras ==
  {ExtraNameOf(MarkerOf(RequiresDistValues[i])) :
     i \in {j \in 1..Len(RequiresDistValues) :
              IsExtraEquality(MarkerOf(RequiresDistValues[j]))}}

ConditionalOn(name) ==
  RequirementsOf(SelectSeq(RequiresDistValues,
                           LAMBDA v : /\ IsExtraEquality(MarkerOf(v))
                                      /\ ExtraNameOf(MarkerOf(v)) = name))

MayRequire ==
  IF "may_require" \in DOMAIN Document THEN Document["may_require"] ELSE <<>>

\* C1: pkginfo_to_dict raises no error of its own: for every header block it
\* returns a document, and extras is in the document whenever a Provides-Extra
\* header or an extra-conditioned Requires-Dist value refers to an extra.
C1_NoErrorOfItsOwn ==
  result.status # "none" =>
    /\ Returned
    /\ (ProvidesExtraValues # <<>> \/ MarkerExtras # {}) =>
         "extras" \in DOMAIN Document

\* C2: in the document returned, the extra of every may_require record and
\* every Provides-Extra value of the header block is an element of extras,
\* whatever the order of the Requires-Dist and Provides-Extra headers.
C2_ExtrasCoverAllReferences ==
  Returned =>
    /\ \A i \in 1..Len(MayRequire) :
         MayRequire[i].extra \in Range(Document["extras"])
    /\ Range(ProvidesExtraValues) \subseteq Range(Document["extras"])

\* C3: in every document returned, extras is sorted ascending and has no
\* duplicates, whatever the order and repetition of the extra names in the
\* Provides-Extra headers and the Requires-Dist markers.
C3_ExtrasSortedUnique ==
  Returned =>
    /\ "extras" \in DOMAIN Document
    /\ Ascending(Document["extras"])
    /\ NoDuplicates(Document["extras"])

\* C3 witness: a document is returned for a header block that names the same
\* extra twice and names two extras in descending order.
C3_Witness ==
  /\ Returned
  /\ ~NoDuplicates(ProvidesExtraValues)
  /\ \E i, j \in 1..Len(ProvidesExtraValues) :
       i < j /\ StrLess(ProvidesExtraValues[j], ProvidesExtraValues[i])
  /\ Len(Document["extras"]) >= 2

\* C4: each Requires-Dist value goes to one place by its marker: requires when
\* the marker is empty, the bucket of <name> when the marker is extra ==
\* '<name>', nowhere when the marker has any other form; requires and each
\* bucket keep the header order and may_require is sorted by extra name.
C4_GroupedByMarker ==
  (Returned /\ RequiresDistValues # <<>>) =>
    /\ Document["requires"] = Unconditional
    /\ Len(MayRequire) = Cardinality(MarkerExtras)
    /\ \A i \in 1..Len(MayRequire) :
         /\ MayRequire[i].extra \in MarkerExtras
         /\ MayRequire[i].dependencies = ConditionalOn(MayRequire[i].extra)
    /\ \A i, j \in 1..Len(MayRequire) :
         i < j => StrLess(MayRequire[i].extra, MayRequire[j].extra)

\* C7 as stated: in every document returned, none of classifiers, provides,
\* requires and extras holds a value twice.
C7_NoValueTwice ==
  Returned =>
    \A f \in {"classifiers", "provides", "requires", "extras"} \cap DOMAIN Document :
      NoDuplicates(Document[f])

\* C7 amended: in every document returned, extras holds no value twice, while
\* classifiers, provides and requires hold one entry per header occurrence,
\* in header order (every Classifier value, every Provides-Dist value, the
\* requirement of every Requires-Dist value without a marker), so that a
\* value the header block repeats is repeated in them.
C7_OccurrencesKept ==
  Returned =>
    /\ NoDuplicates(Document["extras"])
    /\ HeaderValues(Source, "classifier") # <<>> =>
         Document["classifiers"] = HeaderValues(Source, "classifier")
    /\ HeaderValues(Source, "provides-dist") # <<>> =>
         Document["provides"] = HeaderValues(Source, "provides-dist")
    /\ RequiresDistValues # <<>> => Document["requires"] = Unconditional

\* C7 witness: a document is returned whose classifiers hold the Classifier
\* value that the header block repeats, twice.
C7_Witness ==
  /\ Returned
  /\ "classifiers" \in DOMAIN Document
  /\ ~NoDuplicates(Document["classifiers"])
  /\ Len(Document["extras"]) >= 1

\* the lower-cased header name of a document field
HeaderOf(f) ==
  HeaderNames[CHOOSE i \in 1..Len(HeaderNames) : HeaderNames[i][3] = f][2]

\* the value the header block gives field f: that of the first header of the name
Given(f) == HeaderValues(Source, HeaderOf(f))[1]

IsGiven(f) == HeaderValues(Source, HeaderOf(f)) # <<>>

\* field classification stores f: the header block gives it, and not as the
\* placeholder of a placeholder field
Stored(f) == IsGiven(f) /\ ~(f \in UNKNOWN_FIELDS /\ Given(f) = UNKNOWN)

Contacts ==
  IF "contacts" \in DOMAIN Document THEN Document["contacts"] ELSE <<>>

NameField(role) == role

EmailField(role) == IF role = "author" THEN "author_email" ELSE "maintainer_email"

ContactPieces == {"author", "author_email", "maintainer", "maintainer_email"}

\* C5: the document returned holds none of author, author_email, maintainer,
\* maintainer_email; contacts is present exactly when field classification
\* stored one of the four; it holds at most one record per role, the author's
\* before the maintainer's; a record carries its role and exactly those of
\* name and email that were stored, and no record has neither.
C5_ContactsConsolidated ==
  Returned =>
    /\ \A f \in ContactPieces : f \notin DOMAIN Document
    /\ ("contacts" \in DOMAIN Document) <=> (\E f \in ContactPieces : Stored(f))
    /\ "contacts" \in DOMAIN Document => Contacts # <<>>
    /\ \A role \in {"author", "maintainer"} :
         (Stored(NameField(role)) \/ Stored(EmailField(role))) =>
           \E i \in 1..Len(Contacts) : Contacts[i]["role"] = role
    /\ \A i, j \in 1..Len(Contacts) :
         i < j => Contacts[i]["role"] = "author" /\ Contacts[j]["role"] = "maintainer"
    /\ \A i \in 1..Len(Contacts) :
         LET contact == Contacts[i]
             role == contact["role"]
         IN /\ role \in {"author", "maintainer"}
            /\ DOMAIN contact \subseteq {"name", "email", "role"}
            /\ DOMAIN contact # {"role"}
            /\ "name" \in DOMAIN contact <=> Stored(NameField(role))
            /\ "name" \in DOMAIN contact => contact["name"] = Given(NameField(role))
            /\ "email" \in DOMAIN contact <=> Stored(EmailField(role))
            /\ "email" \in DOMAIN contact => contact["email"] = Given(EmailField(role))

\* C5 witness: a document is returned with an author record of name and email
\* followed by a maintainer record.
C5_Witness ==
  /\ Returned
  /\ Len(Contacts) = 2
  /\ DOMAIN Contacts[1] = {"name", "email", "role"}
  /\ Contacts[2]["role"] = "maintainer"

AuthorRecords == {i \in 1..Len(Contacts) : Contacts[i]["role"] = "author"}

\* the header block gives the placeholder field f as UNKNOWN
IsUnknown(f) == IsGiven(f) /\ Given(f) = UNKNOWN

\* C6: a placeholder field (author, author_email, platform, home_page,
\* license) whose header value is UNKNOWN leaves nothing in the document
\* returned: the field is absent, an UNKNOWN author or author_email gives the
\* author record no name or email (and there is no author record when both are
\* UNKNOWN or absent), an UNKNOWN home_page gives no project_urls; and a field
\* is in the document only with a value of the header block that is not the
\* placeholder.
C6_PlaceholdersSuppressed ==
  Returned =>
    /\ \A f \in UNKNOWN_FIELDS : IsUnknown(f) => f \notin DOMAIN Document
    /\ IsUnknown("author") =>
         \A i \in AuthorRecords : "name" \notin DOMAIN Contacts[i]
    /\ IsUnknown("author_email") =>
         \A i \in AuthorRecords : "email" \notin DOMAIN Contacts[i]
    /\ ((IsUnknown("author") \/ ~IsGiven("author"))
           /\ (IsUnknown("author_email") \/ ~IsGiven("author_email"))) =>
         AuthorRecords = {}
    /\ IsUnknown("home_page") => "project_urls" \notin DOMAIN Document
    /\ "project_urls" \in DOMAIN Document =>
         /\ Document["project_urls"]["Home"] # UNKNOWN
         /\ Document["project_urls"]["Home"]
              \in Range(HeaderValues(Source, "home-page"))
    /\ \A i \in AuthorRecords :
         /\ "name" \in DOMAIN Contacts[i] =>
              /\ Contacts[i]["name"] # UNKNOWN
              /\ Contacts[i]["name"] \in Range(HeaderValues(Source, "author"))
         /\ "email" \in DOMAIN Contacts[i] =>
              /\ Contacts[i]["email"] # UNKNOWN
              /\ Contacts[i]["email"] \in Range(HeaderValues(Source, "author-email"))
    /\ \A f \in {"name", "platform", "license", "home_page", "author",
                 "author_email", "maintainer", "maintainer_email"} \cap DOMAIN Document :
         /\ Document[f] \in Range(HeaderValues(Source, HeaderOf(f)))
         /\ f \in UNKNOWN_FIELDS => Document[f] # UNKNOWN

\* C6 witness: a document is returned for a header block whose Author-email and
\* Home-page are UNKNOWN and whose Author is not: the author record has the
\* name alone, and there is no project_urls.
C6_Witness ==
  /\ Returned
  /\ IsUnknown("author_email")
  /\ IsUnknown("home_page")
  /\ AuthorRecords # {}
  /\ \A i \in AuthorRecords : DOMAIN Contacts[i] = {"name", "role"}

\* pkginfo_to_metadata has returned a header block
Converted == egg_metadata.status = "returned"

Lines == requires_txt.lines

IsSectionLine(i) == "section" \in DOMAIN Lines[i]

\* the name of the section that line i of requires.txt is in, None before the
\* first section line
SectionAt(i) ==
  LET before == {j \in 1..(i - 1) : IsSectionLine(j)}
  IN IF before = {} THEN None
     ELSE Lines[CHOOSE j \in before : \A k \in before : k <= j].section

\* the Description header of PKG-INFO has a value that is not empty
DescriptionGiven ==
  /\ HeaderValues(pkg_info, "description") # <<>>
  /\ HeaderValues(pkg_info, "description")[1] # <<>>

\* the headers of PKG-INFO that the conversion keeps
Kept ==
  IF DescriptionGiven
  THEN SelectSeq(pkg_info.headers, LAMBDA h : lower(h.key) # "description")
  ELSE pkg_info.headers

\* the headers that follow them in the header block returned
Appended ==
  SubSeq(egg_metadata.msg.headers, Len(Kept) + 1, Len(egg_metadata.msg.headers))

OperatorVersion(specs) == [i \in 1..Len(specs) |-> specs[i][1] \o specs[i][2]]

\* <project_name>[<extras>]<open><specs>)<condition>, the bracketed and the
\* parenthesized segment only when not empty
Composed(req, open, condition) ==
  req.project_name
  \o (IF req.extras = <<>> THEN <<>>
      ELSE <<"[">> \o join(<<",">>, req.extras) \o <<"]">>)
  \o (IF req.specs = <<>> THEN <<>>
      ELSE open \o join(<<",">>, OperatorVersion(req.specs)) \o <<")">>)
  \o condition

ExtraCondition(quote, name) ==
  <<";", " ", "e", "x", "t", "r", "a", " ", "=", "=", " ">>
  \o <<quote>> \o name \o <<quote>>

\* C8 as stated: the Requires-Dist value of every requirement line is exactly
\* <project_name>[<extras>](<specs>); extra == '<name>', each segment only
\* when not empty and no condition in the unnamed section.
C8_ComposedAsStated ==
  (Converted /\ requires_txt.exists) =>
    \A i \in 1..Len(Lines) :
      ~IsSectionLine(i) =>
        /\ i <= Len(Appended)
        /\ Appended[i].value =
             Composed(Lines[i].req, <<"(">>,
                      IF SectionAt(i) = None THEN <<>>
                      ELSE ExtraCondition("'", SectionAt(i)))

\* a name of letters, digits and other characters that repr leaves as they are
Plain(name) == \A i \in 1..Len(name) : name[i] \notin {"'", "\"", "\\", "\n"}

\* a name with a single quote, and no double quote, backslash or line break
SingleQuoted(name) ==
  /\ "'" \in Range(name)
  /\ \A i \in 1..Len(name) : name[i] \notin {"\"", "\\", "\n"}

\* C8 amended: the Requires-Dist value of every requirement line is exactly
\* <project_name>[<extras>] (<specs>); extra == <quoted name>: a space comes
\* before the parenthesized segment, and the name is quoted as repr quotes it,
\* '<name>' for a name without quotes and "<name>" for a name with a single
\* quote and no double quote (names without backslash or line break); each
\* segment is there only when not empty (no parentheses for no specs, no
\* brackets for no extras, no condition in the unnamed section).
C8_ComposedWithSpace ==
  (Converted /\ requires_txt.exists) =>
    \A i \in 1..Len(Lines) :
      (~IsSectionLine(i)
         /\ (SectionAt(i) = None \/ Plain(SectionAt(i)) \/ SingleQuoted(SectionAt(i)))) =>
        /\ i <= Len(Appended)
        /\ Appended[i].value =
             Composed(Lines[i].req, <<" ", "(">>,
                      IF SectionAt(i) = None THEN <<>>
                      ELSE IF Plain(SectionAt(i))
                        THEN ExtraCondition("'", SectionAt(i))
                      ELSE ExtraCondition("\"", SectionAt(i)))

\* C8 witness: the header block returned has the values a (no segment at all)
\* and c[x,y] (>=1,<2); extra == 'd' (every segment).
C8_Witness ==
  /\ Converted
  /\ \E i, j \in 1..Len(Appended) :
       /\ Appended[i].value = <<"a">>
       /\ Appended[j].value =
            <<"c", "[", "x", ",", "y", "]", " ", "(", ">", "=", "1", ",", "<", "2",
              ")", ";", " ", "e", "x", "t", "r", "a", " ", "=", "=", " ", "'", "d", "'">>

\* C9: pkginfo_to_metadata appends one Provides-Extra header per named section
\* and one Requires-Dist header per requirement line, in the order of the
\* listing (a section's Provides-Extra before its Requires-Dist headers, none
\* for the unnamed section); it sets Metadata-Version to 2.0; every other
\* header of PKG-INFO keeps its name, value and place, but that a Description
\* that is not empty leaves the headers for the payload.
C9_HeadersAppendedRestKept ==
  Converted =>
    LET new == egg_metadata.msg.headers
    IN /\ Len(new) = Len(Kept) + Len(Lines)
       /\ \A i \in 1..Len(Kept) :
            /\ new[i].key = Kept[i].key
            /\ new[i].value = IF lower(Kept[i].key) = "metadata-version"
                              THEN <<"2", ".", "0">> ELSE Kept[i].value
       /\ \A i \in 1..Len(Lines) :
            IF IsSectionLine(i)
            THEN /\ Appended[i].key = "Provides-Extra"
                 /\ Appended[i].value = Lines[i].section
            ELSE Appended[i].key = "Requires-Dist"
       /\ DescriptionGiven =>
            /\ HeaderValues(egg_metadata.msg, "description") = <<>>
            /\ egg_metadata.msg.payload # pkg_info.payload
       /\ ~DescriptionGiven => egg_metadata.msg.payload = pkg_info.payload

\* C9 witness: a header block is returned for a PKG-INFO with a Description
\* and a requires.txt of a requirement, a section and a requirement of it.
C9_Witness ==
  /\ Converted
  /\ DescriptionGiven
  /\ Len(Lines) >= 3
  /\ \E i \in 2..(Len(Lines) - 1) :
       /\ IsSectionLine(i) /\ ~IsSectionLine(i - 1) /\ ~IsSectionLine(i + 1)
       /\ Appended[i].key = "Provides-Extra"

\* the requirements of the section named name (None: the unnamed section), as
\* composed without a condition, in the order of the listing
RECURSIVE RequirementsFrom(_, _)
RequirementsFrom(i, name) ==
  IF i > Len(Lines) THEN <<>>
  ELSE (IF ~IsSectionLine(i) /\ SectionAt(i) = name
        THEN <<Composed(Lines[i].req, <<" ", "(">>, <<>>)>> ELSE <<>>)
       \o RequirementsFrom(i + 1, name)

ListedSections == {Lines[i].section : i \in {j \in 1..Len(Lines) : IsSectionLine(j)}}

BucketOf(name) ==
  LET at == {i \in 1..Len(MayRequire) : MayRequire[i].extra = name}
  IN IF at = {} THEN <<>> ELSE MayRequire[CHOOSE i \in at : TRUE].dependencies

\* C10: for every requires.txt, pkginfo_to_dict of the header block that
\* pkginfo_to_metadata returns puts the requirements of the unnamed section in
\* requires and those of a section named e in the may_require bucket of e and
\* nowhere else, and extras is the sorted set of the section names.
C10_RoundTrip ==
  (result.status # "none" /\ result.path = "METADATA"
     /\ requires_txt.exists /\ HeaderValues(pkg_info, "requires-dist") = <<>>) =>
    /\ Returned
    /\ (IF "requires" \in DOMAIN Document THEN Document["requires"] ELSE <<>>)
         = RequirementsFrom(1, None)
    /\ \A name \in ListedSections : BucketOf(name) = RequirementsFrom(1, name)
    /\ \A i \in 1..Len(MayRequire) : MayRequire[i].extra \in ListedSections
    /\ Range(Document["extras"]) = ListedSections
    /\ Ascending(Document["extras"])

====
